---- MODULE Spec2Model ----
(***************************************************************************)
(* WeatherAPI (src/app.py): the Flask handlers POST /weather, POST         *)
(* /geocode, GET /recent-searches and POST /weather-by-coords, the         *)
(* memoized get_weather_data pipeline behind them, the session's           *)
(* recent_searches list and the result cache.                              *)
(*                                                                         *)
(* app.run() serves every request on a thread of its own and nothing in    *)
(* the handlers takes a lock.  A handler is therefore a sequence of steps  *)
(* that ends at each point where it blocks in requests.get: the request    *)
(* that waits is in `flight`, and other requests start, wait and finish    *)
(* in between.  The steps of one request are                               *)
(*   - the start: the body is read, the session copy of the request is     *)
(*     updated, the memoized lookup is made; a request that does not       *)
(*     reach an upstream call is answered in this step;                    *)
(*   - for POST /weather-by-coords, the return of the reverse geocoding    *)
(*     and the memoized lookup that follows it; for POST /geocode, the     *)
(*     return of the geocoder and the answer;                              *)
(*   - the return of the pipeline: the payload is stored in the cache at   *)
(*     that instant, under the key made when the call started, and the     *)
(*     request is answered.                                                *)
(* The session is a cookie: a request works on the copy it was sent with,  *)
(* and the client's cookie (recent) is replaced when the answer of a       *)
(* request that modified its copy arrives.  The rate limiter that sits in  *)
(* front of the handlers and GET / are not part of the model.              *)
(*                                                                         *)
(* The upstream services are the environment: every outcome of every       *)
(* upstream call is an input of the step in which the call returns.        *)
(*                                                                         *)
(* Strings are sequences of tokens (a character, or a word that is never   *)
(* split), so that str.strip() is computed.  A JSON value of a request     *)
(* body is a record tagged by its type; a dict key that is absent is the   *)
(* value Missing.                                                          *)
(***************************************************************************)
EXTENDS Integers, Sequences, FiniteSets, Bags, TLC

VARIABLES recent, cache, version, now, flight, req, resp, calls, missed,
          stored, failed, since

vars ==
    <<recent, cache, version, now, flight, req, resp, calls, missed, stored,
      failed, since>>

(***************************************************************************)
(* Program constants                                                       *)
(***************************************************************************)
\* the timeout left out of the decorator: Flask-Caching's own 300 seconds
MemoizeTimeoutUnset == 5 * 60

\* @cache.memoize(timeout=600): seconds an entry stays valid
MemoizeTimeout == 600

\* session['recent_searches'][:5]
RecentLimit == 5

\* len(query) < 2 in geocode()
MinQueryLen == 2

(***************************************************************************)
(* Bounds of the model                                                     *)
(***************************************************************************)
\* between requests the clock advances in steps of TickStep seconds, up to
\* MaxTime.  Two steps and one wait make the lifetime of an entry, so that
\* a call can fall between the expiry of the version and the expiry of an
\* entry that was stored one wait later; the clock stops where that entry
\* expires
TickStep == 295
MaxTime == 610

\* while requests wait for an upstream answer the clock advances in steps
\* of WaitStep seconds, MaxWaits times at most: less than the timeouts of
\* the calls (10 s, 10 s and 5 s)
WaitStep == 10
MaxWaits == 1

\* requests that wait for an upstream answer at one time
MaxInFlight == 2

(***************************************************************************)
(* JSON values and strings                                                 *)
(***************************************************************************)
Missing == [t |-> "missing"]
Null == [t |-> "null"]
Str(s) == [t |-> "str", s |-> s]
Num(n) == [t |-> "num", n |-> n]

\* the characters str.strip() removes: those for which str.isspace() holds.
\* A character that has no escape in a string is written by its code point.
Whitespace ==
    {" ", "\t", "\n", "\r", "\f", "U+000B", "U+001C", "U+001D", "U+001E",
     "U+001F", "U+0085", "U+00A0", "U+1680", "U+2000", "U+2001", "U+2002",
     "U+2003", "U+2004", "U+2005", "U+2006", "U+2007", "U+2008", "U+2009",
     "U+200A", "U+2028", "U+2029", "U+202F", "U+205F", "U+3000"}

\* dict.get(key, default): the default only for an absent key, a JSON null
\* stays None
DictGet(v, default) == IF v.t = "missing" THEN default ELSE v

\* Python truthiness of a JSON value, as in `not lat`
Falsy(v) ==
    \/ v.t \in {"missing", "null"}
    \/ v.t = "num" /\ v.n = 0
    \/ v.t = "str" /\ v.s = <<>>

RECURSIVE Strip(_)

\* the string as it was sent
NoStrip(s) == s

\* str.strip(): drops the leading and the trailing whitespace
Strip(s) ==
    IF s = <<>> THEN s
    ELSE IF Head(s) \in Whitespace THEN Strip(Tail(s))
    ELSE IF s[Len(s)] \in Whitespace THEN Strip(SubSeq(s, 1, Len(s) - 1))
    ELSE s

(***************************************************************************)
(* Response payloads.  keys is the set of top-level keys of the JSON       *)
(* object; a field that is not among the keys holds its empty value.  The  *)
(* unit of a weather payload is the JSON value the request gave.           *)
(***************************************************************************)
NoError == [msg |-> "", arg |-> <<>>]
NoAir == [aqi |-> "", pm10 |-> "", pm25 |-> ""]

ErrorPayload(msg, arg) ==
    [success |-> FALSE, keys |-> {"success", "error"},
     error |-> [msg |-> msg, arg |-> arg],
     air_quality |-> NoAir, unit |-> Missing, city |-> <<>>, list |-> <<>>]

WeatherPayload(city, unit, air) ==
    [success |-> TRUE, keys |-> {"success", "current", "hourly", "forecast"},
     error |-> NoError,
     air_quality |-> air, unit |-> unit, city |-> city, list |-> <<>>]

ListPayload(key, items) ==
    [success |-> TRUE, keys |-> {"success", key},
     error |-> NoError,
     air_quality |-> NoAir, unit |-> Missing, city |-> <<>>, list |-> items]

\* what the transport layer answers
Json(p) == [status |-> "json", payload |-> p]
Unhandled(exc) == [status |-> "exception", payload |-> ErrorPayload(exc, <<>>)]

(***************************************************************************)
(* Upstream calls and their outcomes                                       *)
(***************************************************************************)
Out(kind) == [kind |-> kind, fields |-> {}, name |-> <<>>]
Call(api, out) == [api |-> api, out |-> out]

\* get_coordinates(city): None, {'error': ...} or the first result
GetCoordinates(g) ==
    CASE g.kind = "found" -> [kind |-> "location", msg |-> "", name |-> g.name]
      [] g.kind = "no_results" -> [kind |-> "none", msg |-> "", name |-> <<>>]
      [] g.kind = "timeout" ->
            [kind |-> "error", msg |-> "Request timeout. Please try again.",
             name |-> <<>>]
      [] g.kind = "connection" ->
            [kind |-> "error",
             msg |-> "Network connection error. Please check your internet.",
             name |-> <<>>]
      [] OTHER -> [kind |-> "none", msg |-> "", name |-> <<>>]

AllNA == [aqi |-> "N/A", pm10 |-> "N/A", pm25 |-> "N/A"]

\* .get(field) without the 'N/A' default
AirQualityNoDefault(a) ==
    IF a.kind = "json" /\ "current" \in a.fields
    THEN [aqi |-> IF "us_aqi" \in a.fields THEN "value" ELSE "",
          pm10 |-> IF "pm10" \in a.fields THEN "value" ELSE "",
          pm25 |-> IF "pm2_5" \in a.fields THEN "value" ELSE ""]
    ELSE AllNA

\* the air-quality try block: .get(field, 'N/A') on the current block, and
\* the bare except for everything else
AirQuality(a) ==
    IF a.kind = "json" /\ "current" \in a.fields
    THEN [aqi |-> IF "us_aqi" \in a.fields THEN "value" ELSE "N/A",
          pm10 |-> IF "pm10" \in a.fields THEN "value" ELSE "N/A",
          pm25 |-> IF "pm2_5" \in a.fields THEN "value" ELSE "N/A"]
    ELSE AllNA

\* the hourly block read only later, while shaping
FirstMissingBlockNoHourly(f) ==
    IF "current" \notin f.fields THEN "current"
    ELSE IF "daily" \notin f.fields THEN "daily"
    ELSE ""

\* data['current'], data['daily'], data['hourly'], in this order: the first
\* block that is absent raises KeyError
FirstMissingBlock(f) ==
    IF "current" \notin f.fields THEN "current"
    ELSE IF "daily" \notin f.fields THEN "daily"
    ELSE IF "hourly" \notin f.fields THEN "hourly"
    ELSE ""

\* the forecast request up to the three block reads: "" when it went
\* through, else the error message of the except clause that caught it
ForecastError(f) ==
    CASE f.kind = "timeout" -> "Request timeout. Please try again."
      [] f.kind = "connection" -> "Network connection error."
      [] f.kind \in {"http_error", "not_json"} -> "An error occurred"
      [] f.kind = "json" /\ FirstMissingBlock(f) # "" -> "Invalid API response"
      [] OTHER -> ""

\* the shaping of the three blocks (after the air-quality call): hourly[...][i]
\* for i in range(24) raises IndexError on a series shorter than 24
ShapeError(f) == IF "hourly24" \notin f.fields THEN "An error occurred" ELSE ""

\* the body of get_weather_data: the payload it returns and the upstream
\* calls it issued
FetchWeather(city, unit, g, f, a) ==
    LET location == GetCoordinates(g)
        c1 == <<Call("geocode", g)>>
        c2 == c1 \o <<Call("forecast", f)>>
        c3 == c2 \o <<Call("air_quality", a)>>
    IN  IF location.kind = "none"
        THEN [payload |-> ErrorPayload("City not found", city), calls |-> c1]
        ELSE IF location.kind = "error"
        THEN [payload |-> ErrorPayload(location.msg, <<>>), calls |-> c1]
        ELSE IF ForecastError(f) # ""
        THEN [payload |-> ErrorPayload(ForecastError(f),
                            IF f.kind = "json" THEN <<FirstMissingBlock(f)>>
                            ELSE <<>>),
              calls |-> c2]
        ELSE IF ShapeError(f) # ""
        THEN [payload |-> ErrorPayload(ShapeError(f), <<>>), calls |-> c3]
        ELSE [payload |-> WeatherPayload(location.name, unit, AirQuality(a)),
              calls |-> c3]

(***************************************************************************)
(* The result cache: cache.memoize(timeout=600) around get_weather_data    *)
(* (src/app.py:126), on the 'simple' cache of src/app.py:14-17.  The       *)
(* wrapper is Flask-Caching's and is not part of src/; what it does is     *)
(* modelled after the library:                                             *)
(*   - the cache holds, besides the entries, one entry with the version of *)
(*     get_weather_data.  Every call reads it; a call that finds none, or  *)
(*     an expired one, generates a fresh version and stores it with the    *)
(*     timeout of the decorator.  A version that is found is not           *)
(*     refreshed.                                                          *)
(*   - the key of a call is made of the version and the arguments, so the  *)
(*     entries stored under a version are never found again once another   *)
(*     version has been generated, whatever their own expiry;              *)
(*   - the key is looked up when the call starts; on a miss the function   *)
(*     runs and what it returned is stored, once it has returned, under    *)
(*     the key made at the start;                                          *)
(*   - an entry is found while its expiry time is in the future.           *)
(* A fresh version is a random name in the library; here it is named by    *)
(* the instant at which it is generated, which no other version shares.    *)
(* The simple cache prunes entries once it holds more than its threshold   *)
(* of 500; the runs of the model stay below it and nothing is pruned.      *)
(***************************************************************************)
\* no version entry: the state of the cache before the first call
NoVersion == [id |-> -1, expires |-> 0]

\* the version entry is found while its expiry time is in the future
VersionAlive(v, t) == v.expires > t

\* the version a call at time t works with, v being the version entry of
\* the cache: v, or a fresh one stored for the timeout of the decorator
MemoizeVersion(v, t) ==
    IF VersionAlive(v, t) THEN v
    ELSE [id |-> t, expires |-> t + MemoizeTimeout]

\* the key of a call: the version and the arguments, whatever their type
CacheKey(v, city, unit) == <<v.id, city, unit>>

\* a call at time t is served from the cache c whose version entry is v:
\* the version is alive, and so is the entry of the key made with it
CacheHit(c, v, city, unit, t) ==
    /\ VersionAlive(v, t)
    /\ CacheKey(v, city, unit) \in DOMAIN c
    /\ c[CacheKey(v, city, unit)].expires > t

\* cache.set(key, value, timeout) at time t: the entry replaces the one of
\* the key
CacheSet(c, key, value, t) ==
    (key :> [value |-> value, expires |-> t + MemoizeTimeout]) @@ c

(***************************************************************************)
(* The session's recent_searches                                           *)
(***************************************************************************)
Contains(rs, city) == \E i \in 1..Len(rs) : rs[i] = city

Truncate(rs, n) == SubSeq(rs, 1, IF Len(rs) < n THEN Len(rs) ELSE n)

\* the insert without the [:5]
RecordSearchNoTruncate(rs, city) ==
    IF ~Contains(rs, city) THEN <<city>> \o rs ELSE rs

\* if city not in list: insert(0, city), then [:5]
RecordSearch(rs, city) ==
    IF ~Contains(rs, city) THEN Truncate(<<city>> \o rs, RecentLimit) ELSE rs

(***************************************************************************)
(* The upstream services                                                   *)
(***************************************************************************)
Found(name) == [kind |-> "found", fields |-> {}, name |-> name]
JsonBody(fields) == [kind |-> "json", fields |-> fields, name |-> <<>>]

\* a call that is not issued has no outcome
Unused == Out("unused")

\* the geocoding service asked for a name: http_error is an error status,
\* which raise_for_status() turns into an exception
GeoFailures ==
    {Out("no_results"), Out("timeout"), Out("connection"), Out("http_error")}

GeoOutcomes == {Found(<<"a">>)} \cup GeoFailures

\* the geocoding service asked for a pair of coordinates: http_error is an
\* error status with a JSON object that tells the reason, not_json an
\* answer whose body is no JSON
ReverseOutcomes ==
    {Found(<<"a">>), Out("no_results"), Out("http_error"), Out("not_json"),
     Out("timeout"), Out("connection")}

\* the reverse geocoding of get_weather_by_coords: the status of the answer
\* is not looked at, a JSON body without results is 'Location not found',
\* an exception is answered with its text
ReverseError(rv) ==
    IF rv.kind \in {"no_results", "http_error"} THEN "Location not found"
    ELSE rv.kind

ForecastBlocks == {"current", "daily", "hourly", "hourly24"}

\* the forecast service: no answer, or a JSON body with some of the blocks
ForecastOutcomes ==
    {Out("timeout"), Out("connection"), Out("http_error"), Out("not_json"),
     JsonBody(ForecastBlocks), JsonBody(ForecastBlocks \ {"current"}),
     JsonBody(ForecastBlocks \ {"daily"}),
     JsonBody(ForecastBlocks \ {"hourly", "hourly24"}),
     JsonBody(ForecastBlocks \ {"hourly24"}), JsonBody({})}

\* the air-quality service: no answer, or a JSON body whose current block
\* (when there is one) holds some of the three fields
AirOutcomes ==
    {Out("timeout"), Out("connection"), Out("not_json"), JsonBody({}),
     JsonBody({"current"}), JsonBody({"current", "us_aqi"}),
     JsonBody({"current", "pm10", "pm2_5"}),
     JsonBody({"current", "us_aqi", "pm10", "pm2_5"})}

\* what the services answer to the calls of one get_weather_data run: the
\* forecast is asked only once the place is found, the air quality only
\* once the forecast holds its three blocks (every answer of it after a
\* forecast that can be shaped, two of them after one that cannot)
Scenarios ==
    {[g |-> g, f |-> Unused, a |-> Unused] : g \in GeoFailures}
    \cup {[g |-> Found(<<"a">>), f |-> f, a |-> Unused] :
            f \in {x \in ForecastOutcomes : ForecastError(x) # ""}}
    \cup {[g |-> Found(<<"a">>), f |-> f, a |-> a] :
            f \in {x \in ForecastOutcomes :
                        ForecastError(x) = "" /\ ShapeError(x) = ""},
            a \in AirOutcomes}
    \cup {[g |-> Found(<<"a">>), f |-> f, a |-> a] :
            f \in {x \in ForecastOutcomes :
                        ForecastError(x) = "" /\ ShapeError(x) # ""},
            a \in {Out("timeout"),
                   JsonBody({"current", "us_aqi", "pm10", "pm2_5"})}}

\* services that are up, but do not know every place
StableScenarios ==
    {[g |-> Out("no_results"), f |-> Unused, a |-> Unused],
     [g |-> Found(<<"a">>), f |-> JsonBody(ForecastBlocks),
      a |-> JsonBody({"current", "us_aqi", "pm10", "pm2_5"})]}

\* the failures a lookup meets most: an unknown place, a geocoder or a
\* forecast that times out, a forecast without its current block
CacheScenarios ==
    StableScenarios
    \cup {[g |-> Out("timeout"), f |-> Unused, a |-> Unused],
          [g |-> Found(<<"a">>), f |-> Out("timeout"), a |-> Unused],
          [g |-> Found(<<"a">>), f |-> JsonBody(ForecastBlocks \ {"current"}),
           a |-> Unused],
          [g |-> Found(<<"a">>), f |-> JsonBody(ForecastBlocks),
           a |-> Out("timeout")]}

(***************************************************************************)
(* Requests                                                                *)
(***************************************************************************)
\* a request body: a JSON object with the fields the handlers read, a JSON
\* array, or the JSON literal null
Body(kind, city, unit, latitude, longitude, query) ==
    [kind |-> kind, city |-> city, unit |-> unit, latitude |-> latitude,
     longitude |-> longitude, query |-> query]

NoBody == Body("none", Missing, Missing, Missing, Missing, Missing)

Request(ep, body) == [ep |-> ep, body |-> body]

Celsius == Str(<<"celsius">>)

\* unit = data.get('unit', 'celsius'): the JSON value that was sent, of any
\* type, or the default for an absent key
UnitOf(body) == DictGet(body.unit, Celsius)

\* a request that waits for an upstream answer: the session copy it works
\* on and whether it modified it, the call it waits for (pc), the
\* arguments of get_weather_data, the version its call of get_weather_data
\* read (NoVersion before the call) and the upstream calls it has made
Thread(ep, body, sess, modified, pc, city, unit, ver, pre) ==
    [ep |-> ep, body |-> body, sess |-> sess, modified |-> modified,
     pc |-> pc, city |-> city, unit |-> unit, ver |-> ver, pre |-> pre]

\* the arguments of a call of get_weather_data
Args(city, unit) == <<city, unit>>

\* req, resp and calls are the request answered last, its answer and the
\* upstream calls it made.  The history of the run: since is the instant
\* of the first call of get_weather_data, and from then on of the first
\* call made 10 minutes or more after the instant it held (-1 before any
\* call); for the arguments of a call, missed is when a call missed last,
\* stored is the payload stored last by a call that started in the latest
\* period (began: the value of since when it started; at: the instant of
\* the store), and failed is the last failure the pipeline returned, and
\* when.

\* a request is answered: what it leaves behind
Answer(ep, body, rs, c, response, issued, fl) ==
    /\ req' = Request(ep, body)
    /\ recent' = rs
    /\ cache' = c
    /\ resp' = response
    /\ calls' = issued
    /\ flight' = fl
    /\ UNCHANGED <<now, missed>>

\* a request answered without a call of get_weather_data
Served(ep, body, rs, response, issued, fl) ==
    /\ Answer(ep, body, rs, cache, response, issued, fl)
    /\ UNCHANGED <<version, stored, failed, since>>

\* a request answered before any upstream call
Reject(ep, body, response) ==
    Served(ep, body, recent, response, <<>>, flight)

\* a call of get_weather_data starts: the wrapper reads the version entry
\* and stores a fresh one when it finds none
Called ==
    /\ version' = MemoizeVersion(version, now)
    /\ since' = IF since < 0 \/ now - since >= 600 THEN now ELSE since

\* the call of get_weather_data found the entry of its key: the request is
\* answered with it
Hit(ep, body, rs, city, unit, issued, fl) ==
    /\ Called
    /\ Answer(ep, body, rs, cache,
              Json(cache[CacheKey(version, city, unit)].value), issued, fl)
    /\ UNCHANGED <<stored, failed>>

\* the call of get_weather_data found no entry to serve: the request th
\* goes on to run the pipeline
Miss(th, fl) ==
    /\ Called
    /\ flight' = fl (+) SetToBag({th})
    /\ missed' = (Args(th.city, th.unit) :> now) @@ missed
    /\ UNCHANGED <<recent, cache, now, req, resp, calls, stored, failed>>

\* POST /weather, up to the memoized lookup
get_weather(body) ==
    LET cityv == DictGet(body.city, Str(<<>>))
    IN  IF body.kind # "object" \/ cityv.t # "str"
        THEN Reject("weather", body, Unhandled("AttributeError"))
        ELSE LET city == Strip(cityv.s)
                 unit == UnitOf(body)
                 sess == RecordSearch(recent, city)
             IN  IF city = <<>>
                 THEN Reject("weather", body,
                             Json(ErrorPayload("City name is required", <<>>)))
                 ELSE IF CacheHit(cache, version, city, unit, now)
                 THEN Hit("weather", body, sess, city, unit, <<>>, flight)
                 ELSE /\ BagCardinality(flight) < MaxInFlight
                      /\ Miss(Thread("weather", body, sess,
                                     ~Contains(recent, city), "pipeline",
                                     city, unit,
                                     MemoizeVersion(version, now), <<>>),
                              flight)

\* POST /geocode, up to the call of the geocoder
geocode(body) ==
    LET queryv == DictGet(body.query, Str(<<>>))
    IN  IF body.kind # "object" \/ queryv.t # "str"
        THEN Reject("geocode", body, Unhandled("AttributeError"))
        ELSE IF Len(Strip(queryv.s)) < MinQueryLen
        THEN Reject("geocode", body, Json(ListPayload("results", <<>>)))
        ELSE /\ BagCardinality(flight) < MaxInFlight
             /\ flight' = flight (+) SetToBag({
                    Thread("geocode", body, <<>>, FALSE, "autocomplete",
                           <<>>, Missing, NoVersion, <<>>)})
             /\ UNCHANGED <<recent, cache, version, now, req, resp, calls,
                            missed, stored, failed, since>>

\* POST /geocode, from the answer q of the geocoder: an error status or an
\* exception is answered with its text, a body without results with an
\* empty list
autocompleted(th, q) ==
    Served(th.ep, th.body, recent,
           IF q.kind = "found"
           THEN Json(ListPayload("results", <<q.name>>))
           ELSE IF q.kind = "no_results"
           THEN Json(ListPayload("results", <<>>))
           ELSE Json(ErrorPayload(q.kind, <<>>)),
           <<Call("autocomplete", q)>>, flight (-) SetToBag({th}))

\* GET /recent-searches
get_recent_searches ==
    Reject("recent-searches", NoBody, Json(ListPayload("searches", recent)))

\* POST /weather-by-coords, up to the reverse geocoding call
get_weather_by_coords(body) ==
    LET lat == DictGet(body.latitude, Null)
        lon == DictGet(body.longitude, Null)
    IN  IF body.kind # "object"
        THEN Reject("weather-by-coords", body, Unhandled("AttributeError"))
        ELSE IF Falsy(lat) \/ Falsy(lon)
        THEN Reject("weather-by-coords", body,
                    Json(ErrorPayload("Coordinates required", <<>>)))
        ELSE /\ BagCardinality(flight) < MaxInFlight
             /\ flight' = flight (+) SetToBag({
                    Thread("weather-by-coords", body, <<>>, FALSE, "reverse",
                           <<>>, UnitOf(body), NoVersion, <<>>)})
             /\ UNCHANGED <<recent, cache, version, now, req, resp, calls,
                            missed, stored, failed, since>>

\* POST /weather-by-coords, from the answer rv of the reverse geocoder to
\* the memoized lookup
reverse_geocoded(th, rv) ==
    LET issued == <<Call("reverse", rv)>>
        rest == flight (-) SetToBag({th})
    IN  IF rv.kind # "found"
        THEN Served(th.ep, th.body, recent,
                    Json(ErrorPayload(ReverseError(rv), <<>>)), issued, rest)
        ELSE IF CacheHit(cache, version, rv.name, th.unit, now)
        THEN Hit(th.ep, th.body, recent, rv.name, th.unit, issued, rest)
        ELSE Miss(Thread(th.ep, th.body, th.sess, th.modified, "pipeline",
                         rv.name, th.unit, MemoizeVersion(version, now),
                         issued), rest)

\* the history of the run when the call of th stores the payload p: the
\* store of a call that started in an earlier period than the one on
\* record is not the last store of the latest period
Recorded(th, p) ==
    LET args == Args(th.city, th.unit)
    IN  /\ stored' = IF args \in DOMAIN stored /\ stored[args].began > th.ver.id
                     THEN stored
                     ELSE (args :> [began |-> th.ver.id, at |-> now,
                                    value |-> p]) @@ stored
        /\ failed' = IF p.success THEN failed
                     ELSE (args :> [at |-> now, value |-> p]) @@ failed
        /\ UNCHANGED <<version, since>>

\* the failures of the pipeline raised to the handler instead of returned:
\* nothing to store
get_weather_data_raising(th, up) ==
    LET r == FetchWeather(th.city, th.unit, up.g, up.f, up.a)
    IN  /\ Answer(th.ep, th.body, IF th.modified THEN th.sess ELSE recent,
                  IF r.payload.success
                  THEN CacheSet(cache, CacheKey(th.ver, th.city, th.unit),
                                r.payload, now)
                  ELSE cache,
                  IF r.payload.success THEN Json(r.payload)
                  ELSE Unhandled(r.payload.error.msg),
                  th.pre \o r.calls, flight (-) SetToBag({th}))
        /\ Recorded(th, r.payload)

\* the pipeline of the request th returns: the wrapper stores the payload
\* at this instant under the key it made when the call started, the
\* handler answers with it and the session copy, when modified, replaces
\* the client's cookie
get_weather_data(th, up) ==
    LET r == FetchWeather(th.city, th.unit, up.g, up.f, up.a)
    IN  /\ Answer(th.ep, th.body, IF th.modified THEN th.sess ELSE recent,
                  CacheSet(cache, CacheKey(th.ver, th.city, th.unit),
                           r.payload, now),
                  Json(r.payload), th.pre \o r.calls,
                  flight (-) SetToBag({th}))
        /\ Recorded(th, r.payload)

\* time passes between requests
Tick ==
    /\ flight = EmptyBag
    /\ now + TickStep <= MaxTime
    /\ now' = now + TickStep
    /\ UNCHANGED <<recent, cache, version, flight, req, resp, calls, missed,
                   stored, failed, since>>

\* time passes while requests wait for an upstream answer
Wait ==
    /\ flight # EmptyBag
    /\ now % TickStep < MaxWaits * WaitStep
    /\ now' = now + WaitStep
    /\ UNCHANGED <<recent, cache, version, flight, req, resp, calls, missed,
                   stored, failed, since>>

(***************************************************************************)
(* The requests of the runs                                                *)
(***************************************************************************)
BadBodies ==
    {Body("array", Missing, Missing, Missing, Missing, Missing),
     Body("null", Missing, Missing, Missing, Missing, Missing)}

CityValues ==
    {Missing, Null, Num(7), Str(<<>>), Str(<<" ">>), Str(<<"\t", " ">>),
     Str(<<"\n">>), Str(<<"U+000B", "U+00A0">>), Str(<<"\r", "\f">>),
     Str(<<"\n", "a", "\r">>)}

WeatherBodies ==
    BadBodies
    \cup {Body("object", c, Missing, Missing, Missing, Missing) :
            c \in CityValues}

CoordValues == {Missing, Null, Num(0), Num(48)}

CoordsBodies ==
    BadBodies \cup
    {Body("object", Missing, Missing, la, lo, Missing) :
        la \in CoordValues, lo \in CoordValues}

QueryValues ==
    {Missing, Null, Str(<<>>), Str(<<" ", "a", " ">>),
     Str(<<"\n", "a", "\r", "\n">>), Str(<<"a", "b">>)}

GeocodeBodies ==
    BadBodies \cup
    {Body("object", Missing, Missing, Missing, Missing, q) : q \in QueryValues}

\* one session that looks up six places (the fifth with a number for its
\* unit), or sends no name
SessionNames == <<<<"a">>, <<"b">>, <<"c">>, <<"d">>, <<"e">>, <<"f">>>>

SessionLookups ==
    [i \in DOMAIN SessionNames |->
        Body("object", Str(SessionNames[i]),
             IF SessionNames[i] = <<"e">> THEN Num(7) ELSE Missing,
             Missing, Missing, Missing)]

SessionBlanks ==
    {Body("object", Str(n), Missing, Missing, Missing, Missing) :
        n \in {<<"U+00A0">>, <<>>}}

(***************************************************************************)
(* The program                                                             *)
(***************************************************************************)
NoResponse == [status |-> "none", payload |-> ErrorPayload("", <<>>)]

Init ==
    /\ recent = <<>>
    /\ cache = <<>>
    /\ version = NoVersion
    /\ now = 0
    /\ flight = EmptyBag
    /\ req = Request("none", NoBody)
    /\ resp = NoResponse
    /\ calls = <<>>
    /\ missed = <<>>
    /\ stored = <<>>
    /\ failed = <<>>
    /\ since = -1

\* the requests that wait for the call pc
Waiting(pc) == {th \in BagToSet(flight) : th.pc = pc}

Weather == \E body \in WeatherBodies : get_weather(body)

Autocomplete == \E body \in GeocodeBodies : geocode(body)

Autocompleted ==
    \E th \in Waiting("autocomplete") : \E q \in GeoOutcomes :
        autocompleted(th, q)

RecentSearches == get_recent_searches

WeatherByCoords == \E body \in CoordsBodies : get_weather_by_coords(body)

ReverseGeocoded ==
    \E th \in Waiting("reverse") : \E rv \in ReverseOutcomes :
        reverse_geocoded(th, rv)

WeatherData ==
    \E th \in Waiting("pipeline") : \E up \in Scenarios :
        get_weather_data(th, up)

\* every request and every answer of the services, at one instant
Next ==
    \/ Weather
    \/ Autocomplete
    \/ Autocompleted
    \/ RecentSearches
    \/ WeatherByCoords
    \/ ReverseGeocoded
    \/ WeatherData

Spec == Init /\ [][Next]_vars

\* one session's lookups, the services being up: f may be no place the
\* geocoder knows, the other five are
SessionWorld(city) ==
    IF city = <<"f">> THEN StableScenarios
    ELSE {up \in StableScenarios : up.g.kind = "found"}

\* the arguments of the lookup that a body asks for
KeyOf(body) == Args(Strip(body.city.s), UnitOf(body))

\* the client turns to a place once it has asked for the places before it,
\* and asks again for a place once the answer of its lookup has arrived
InTurn(i) ==
    /\ \A j \in 1..(i - 1) : KeyOf(SessionLookups[j]) \in DOMAIN missed
    /\ KeyOf(SessionLookups[i]) \in DOMAIN missed
          => KeyOf(SessionLookups[i]) \in DOMAIN stored

SessionWeather ==
    \/ \E i \in DOMAIN SessionLookups :
          InTurn(i) /\ get_weather(SessionLookups[i])
    \/ \E body \in SessionBlanks : get_weather(body)

SessionWeatherData ==
    \E th \in Waiting("pipeline") : \E up \in SessionWorld(th.city) :
        get_weather_data(th, up)

SessionNext == SessionWeather \/ RecentSearches \/ SessionWeatherData

SessionSpec == Init /\ [][SessionNext]_vars

\* lookups of one place as time passes, the unit sent being a JSON null
CacheBodies == {Body("object", Str(<<"a">>), Null, Num(48), Num(2), Missing)}

CacheWeather == \E body \in CacheBodies : get_weather(body)

CacheWeatherByCoords ==
    \E body \in CacheBodies : get_weather_by_coords(body)

CacheReverseGeocoded ==
    \E th \in Waiting("reverse") :
        \E rv \in {Found(<<"a">>), Out("no_results")} :
            reverse_geocoded(th, rv)

CacheWeatherData ==
    \E th \in Waiting("pipeline") : \E up \in CacheScenarios :
        get_weather_data(th, up)

CacheNext ==
    \/ CacheWeather
    \/ CacheWeatherByCoords
    \/ CacheReverseGeocoded
    \/ CacheWeatherData
    \/ Tick
    \/ Wait

CacheSpec == Init /\ [][CacheNext]_vars

\* lookups of two places by name as time passes: the geocoder may not know
\* a, it knows b
CityBodies ==
    {Body("object", Str(<<"a">>), Null, Missing, Missing, Missing),
     Body("object", Str(<<"b">>), Null, Missing, Missing, Missing)}

CityWeather == \E body \in CityBodies : get_weather(body)

CityWorld(city) ==
    IF city = <<"a">> THEN StableScenarios
    ELSE {[g |-> Found(city), f |-> JsonBody(ForecastBlocks),
           a |-> JsonBody({"current", "us_aqi", "pm10", "pm2_5"})]}

CityWeatherData ==
    \E th \in Waiting("pipeline") : \E up \in CityWorld(th.city) :
        get_weather_data(th, up)

CityNext ==
    \/ CityWeather
    \/ CityWeatherData
    \/ Tick
    \/ Wait

CitySpec == Init /\ [][CityNext]_vars

(***************************************************************************)
(* What the last answered request was, read off the request and the calls  *)
(* it made                                                                 *)
(***************************************************************************)
\* the characters Python counts as whitespace
SpaceChars ==
    {" ", "\t", "\n", "\r", "\f", "U+000B", "U+001C", "U+001D", "U+001E",
     "U+001F", "U+0085", "U+00A0", "U+1680", "U+2000", "U+2001", "U+2002",
     "U+2003", "U+2004", "U+2005", "U+2006", "U+2007", "U+2008", "U+2009",
     "U+200A", "U+2028", "U+2029", "U+202F", "U+205F", "U+3000"}

AllBlank(s) == \A i \in 1..Len(s) : s[i] \in SpaceChars

\* POST /weather with a city name that is not blank
NamedLookup ==
    /\ req.ep = "weather"
    /\ req.body.kind = "object"
    /\ req.body.city.t = "str"
    /\ ~AllBlank(req.body.city.s)

\* POST /weather-by-coords whose reverse geocoding found a place
CoordsLookup ==
    /\ req.ep = "weather-by-coords"
    /\ calls # <<>>
    /\ calls[1].api = "reverse"
    /\ calls[1].out.kind = "found"

\* the request called get_weather_data
HasLookup == NamedLookup \/ CoordsLookup

ReqUnit ==
    IF req.body.unit.t = "missing" THEN Str(<<"celsius">>) ELSE req.body.unit

ReqCity == IF NamedLookup THEN Strip(req.body.city.s) ELSE calls[1].out.name

\* the arguments of the call of get_weather_data that the request made
LookupKey == <<ReqCity, ReqUnit>>

IsPipelineCall(c) == c.api \in {"geocode", "forecast", "air_quality"}

\* the upstream calls of the lookup pipeline among the calls of the request
PipelineCalls == SelectSeq(calls, IsPipelineCall)

\* the number of requests in flight that run the pipeline
Running(fl) ==
    BagCardinality([th \in {t \in BagToSet(fl) : t.pc = "pipeline"} |-> fl[th]])

\* this step answers a request: no time passes, no request starts to wait
\* and no call goes on to the pipeline
Answers ==
    /\ now' = now
    /\ BagCardinality(flight') <= BagCardinality(flight)
    /\ Running(flight') <= Running(flight)

\* in this step a call of get_weather_data misses and goes on to the
\* pipeline
Misses == Running(flight') > Running(flight)

\* in this step a call of get_weather_data is served from the cache and the
\* request answered
Hits == Answers /\ Running(flight') = Running(flight) /\ HasLookup'

\* in this step a call of get_weather_data starts
CallStarts == Misses \/ Hits

\* the arguments of the call that starts in this step
StartKey ==
    IF Misses
    THEN LET th == CHOOSE t \in BagToSet(flight') :
                        /\ t.pc = "pipeline"
                        /\ CopiesIn(t, flight') > CopiesIn(t, flight)
         IN  <<th.city, th.unit>>
    ELSE LookupKey'

\* this step serves the call that starts from the cache: no call of the
\* pipeline, the payload stored last for its arguments, the cache untouched
ServedFromCache ==
    /\ Hits
    /\ PipelineCalls' = <<>>
    /\ resp'.payload = stored[LookupKey'].value
    /\ cache' = cache

\* in this step the pipeline of a call returns
CallReturns == Answers /\ Running(flight') < Running(flight)

\* the request whose pipeline returns in this step
Returning ==
    CHOOSE th \in BagToSet(flight) :
        th.pc = "pipeline" /\ CopiesIn(th, flight) > CopiesIn(th, flight')

\* this step stores the payload it answers with, for 10 minutes from now,
\* under the arguments of the call and the version that the call read
StoresPayload ==
    /\ HasLookup'
    /\ PipelineCalls' # <<>>
    /\ <<Returning.ver.id, ReqCity', ReqUnit'>> \in DOMAIN cache'
    /\ cache'[<<Returning.ver.id, ReqCity', ReqUnit'>>] =
          [value |-> resp'.payload, expires |-> now + 600]

\* the version of get_weather_data was set less than 10 minutes ago and a
\* call with the arguments args that started since then has returned
StoredInPeriod(args) ==
    /\ since >= 0
    /\ now - since < 600
    /\ args \in DOMAIN stored
    /\ stored[args].began = since

NoTwice(rs) == \A i, j \in 1..Len(rs) : i # j => rs[i] # rs[j]

(***************************************************************************)
(* C1: after any sequence of POST /weather requests of one session,        *)
(* recent_searches has at most 5 entries and holds no city name twice      *)
(* (the list of the client's cookie, and the copy of every request).       *)
(***************************************************************************)
C1_AtMostFiveDistinct ==
    /\ Len(recent) <= 5
    /\ NoTwice(recent)
    /\ \A th \in BagToSet(flight) : Len(th.sess) <= 5 /\ NoTwice(th.sess)

\* the list is full and a sixth place has been looked up
C1_Witness ==
    /\ Len(recent) = 5
    /\ Cardinality(DOMAIN cache) = 6
    /\ NamedLookup
    /\ recent[1] = ReqCity

(***************************************************************************)
(* C2: a POST /weather with a city that is already in recent_searches      *)
(* moves that city to the front (index 0) and the list does not grow.      *)
(***************************************************************************)
C2_MovedToFront ==
    [][(Answers /\ NamedLookup' /\ Contains(recent, ReqCity'))
          => (recent'[1] = ReqCity' /\ Len(recent') = Len(recent))]_vars

(***************************************************************************)
(* C3: a city is recorded into recent_searches only when its lookup        *)
(* succeeded; a POST /weather that ends in a success:false result leaves   *)
(* recent_searches unchanged.                                              *)
(***************************************************************************)
C3_RecordedOnlyOnSuccess ==
    [][(Answers /\ req'.ep = "weather" /\ ~resp'.payload.success)
          => recent' = recent]_vars

C5_AirFailed ==
    /\ Len(PipelineCalls) = 3
    /\ PipelineCalls[1].out.kind = "found"
    /\ PipelineCalls[2].out = JsonBody({"current", "daily", "hourly", "hourly24"})
    /\ PipelineCalls[3].out # JsonBody({"current", "us_aqi", "pm10", "pm2_5"})

C5_StillSuccess ==
    /\ resp.status = "json"
    /\ resp.payload.success
    /\ {"current", "hourly", "forecast"} \subseteq resp.payload.keys

C5_AllUnavailable ==
    C5_AirFailed =>
        /\ C5_StillSuccess
        /\ resp.payload.air_quality = [aqi |-> "N/A", pm10 |-> "N/A", pm25 |-> "N/A"]

(***************************************************************************)
(* C5 as amended: with the geocode call and the forecast call succeeding   *)
(* (the forecast complete), any failure of the air-quality call still      *)
(* yields success:true with the current, hourly and forecast blocks; aqi,  *)
(* pm10 and pm25 are all 'N/A' when the call raised or its payload has no  *)
(* current block, and otherwise exactly the fields that the current block  *)
(* lacks are 'N/A'.                                                        *)
(***************************************************************************)
C5_MissingUnavailable ==
    C5_AirFailed =>
        LET a == PipelineCalls[3].out
            q == resp.payload.air_quality
        IN  /\ C5_StillSuccess
            /\ (a.kind # "json" \/ "current" \notin a.fields) =>
                    q = [aqi |-> "N/A", pm10 |-> "N/A", pm25 |-> "N/A"]
            /\ (a.kind = "json" /\ "current" \in a.fields) =>
                    /\ q.aqi = "N/A" <=> "us_aqi" \notin a.fields
                    /\ q.pm10 = "N/A" <=> "pm10" \notin a.fields
                    /\ q.pm25 = "N/A" <=> "pm2_5" \notin a.fields

\* the air-quality call timed out after a complete forecast
C5_Witness ==
    /\ C5_AirFailed
    /\ PipelineCalls[3].out.kind = "timeout"
    /\ resp.payload.success
    /\ resp.payload.air_quality.aqi = "N/A"

(***************************************************************************)
(* C6: if the forecast call fails (timeout, connection error, or a         *)
(* response without the current, hourly or daily block), the response is   *)
(* success:false with an error message and no current, hourly or forecast  *)
(* field, and the air-quality call is never issued for that request.       *)
(***************************************************************************)
C6_ForecastFailed ==
    /\ Len(PipelineCalls) >= 2
    /\ LET f == PipelineCalls[2].out
       IN  \/ f.kind \in {"timeout", "connection"}
           \/ f.kind = "json" /\ ~({"current", "hourly", "daily"} \subseteq f.fields)

C6_ForecastFailureIsFatal ==
    C6_ForecastFailed =>
        /\ resp.status = "json"
        /\ ~resp.payload.success
        /\ "error" \in resp.payload.keys
        /\ resp.payload.error.msg # ""
        /\ resp.payload.keys \cap {"current", "hourly", "forecast"} = {}
        /\ \A i \in 1..Len(calls) : calls[i].api # "air_quality"

\* a forecast without its hourly block
C6_Witness ==
    /\ C6_ForecastFailed
    /\ PipelineCalls[2].out.kind = "json"
    /\ "hourly" \notin PipelineCalls[2].out.fields
    /\ "current" \in PipelineCalls[2].out.fields
    /\ ~resp.payload.success

(***************************************************************************)
(* C7: a POST /weather whose city is missing, empty or whitespace-only is  *)
(* answered with success:false 'City name is required' before any upstream *)
(* call, and changes neither recent_searches nor the result cache.         *)
(***************************************************************************)
C7_BlankCity ==
    /\ req.ep = "weather"
    /\ req.body.kind = "object"
    /\ \/ req.body.city.t = "missing"
       \/ req.body.city.t = "str" /\ AllBlank(req.body.city.s)

C7_BlankCityRejected ==
    [][(Answers /\ C7_BlankCity') =>
        /\ resp'.status = "json"
        /\ ~resp'.payload.success
        /\ resp'.payload.error.msg = "City name is required"
        /\ calls' = <<>>
        /\ recent' = recent
        /\ cache' = cache
        /\ version' = version
        /\ flight' = flight]_vars

\* a city of two whitespace characters that are neither blank nor tab,
\* rejected in a session that has a list and a cache, while a lookup runs
C7_Witness ==
    /\ C7_BlankCity
    /\ req.body.city.t = "str"
    /\ req.body.city.s = <<"U+000B", "U+00A0">>
    /\ resp.payload.error.msg = "City name is required"
    /\ recent # <<>>
    /\ DOMAIN cache # {}
    /\ flight # EmptyBag

(***************************************************************************)
(* C8: every request to POST /weather, POST /geocode and POST              *)
(* /weather-by-coords, whatever the request body and the upstream outcome, *)
(* ends in a JSON payload that carries a success flag; none ends in an     *)
(* unhandled exception.                                                    *)
(***************************************************************************)
C8_AlwaysJsonWithFlag ==
    req.ep \in {"weather", "geocode", "weather-by-coords"} =>
        /\ resp.status = "json"
        /\ "success" \in resp.payload.keys

(***************************************************************************)
(* C9: POST /weather-by-coords answers 'Coordinates required' exactly when *)
(* latitude or longitude is missing from the request; a request with both, *)
(* a latitude or longitude of 0 included, goes on to the reverse geocoding *)
(* call.                                                                   *)
(***************************************************************************)
C9_Absent(v) == v.t \in {"missing", "null"}

C9_RequiredIffMissing ==
    (req.ep = "weather-by-coords" /\ req.body.kind = "object") =>
        LET missing == C9_Absent(req.body.latitude) \/ C9_Absent(req.body.longitude)
        IN  /\ resp.payload.error.msg = "Coordinates required" <=> missing
            /\ ~missing => (calls # <<>> /\ calls[1].api = "reverse")

====
